---- MODULE Spec2Model ----
(***************************************************************************)
(* Lead Management Tool (src/app.js): the form, the confirmation modal,    *)
(* the rendered table and the LocalStorage slot, as a state machine with   *)
(* one action per event handler.                                           *)
(*                                                                         *)
(* Strings are sequences of one-character strings, so that trim,           *)
(* toLowerCase, includes and the phone regular expression are computed.    *)
(* The text held by the storage slot is represented by what JSON.parse     *)
(* makes of it: no text, the empty text, a text that is not JSON, or the   *)
(* JSON value it denotes.                                                  *)
(***************************************************************************)
EXTENDS Integers, Sequences, FiniteSets, TLC

\* ------------------------------------------------------------------ bounds

\* Most records the collection is allowed to grow to.
MaxLeads == 2

\* ----------------------------------------------------------------- strings

\* The values null and undefined, where a string is expected.
null == <<"null">>

undefined == <<"undefined">>

\* value || ''
OrEmpty(value) == IF value \in {null, undefined} THEN <<>> ELSE value

\* !value
Falsy(value) == value \in {null, undefined, <<>>}

Whitespace == {" ", "\t"}

Digits == {"0", "1", "2", "3", "4", "5", "6", "7", "8", "9"}

RECURSIVE TrimStart(_)
TrimStart(s) ==
  IF s # <<>> /\ Head(s) \in Whitespace THEN TrimStart(Tail(s)) ELSE s

RECURSIVE TrimEnd(_)
TrimEnd(s) ==
  IF s # <<>> /\ s[Len(s)] \in Whitespace
    THEN TrimEnd(SubSeq(s, 1, Len(s) - 1))
    ELSE s

\* String.prototype.trim
Trim(s) == TrimEnd(TrimStart(s))

LowerOf(c) ==
  CASE c = "A" -> "a"
    [] c = "B" -> "b"
    [] c = "J" -> "j"
    [] OTHER -> c

\* String.prototype.toLowerCase
ToLowerCase(s) == [i \in 1..Len(s) |-> LowerOf(s[i])]

\* String.prototype.includes
Includes(s, sub) ==
  \E i \in 0..(Len(s) - Len(sub)) : SubSeq(s, i + 1, i + Len(sub)) = sub

\* Number to decimal text, as string concatenation does.
RECURSIVE DecimalText(_)
DecimalText(n) ==
  LET d == <<"0", "1", "2", "3", "4", "5", "6", "7", "8", "9">>
  IN  IF n < 10 THEN <<d[n + 1]>> ELSE DecimalText(n \div 10) \o <<d[(n % 10) + 1]>>

\* -------------------------------------------------------------- validators

NameMaxLength == 100

PhoneMinLength == 7

PhoneMaxLength == 20

\* The character class [\d\s\-\(\)\+\.] of phoneRegex.
PhoneChars == Digits \cup Whitespace \cup {"-", "(", ")", "+", "."}

\* The regular expression with {8,20} for {7,20}.
PhoneRegexTestFromEight(s) ==
  /\ Len(s) >= PhoneMinLength + 1
  /\ Len(s) <= PhoneMaxLength
  /\ \A i \in 1..Len(s) : s[i] \in PhoneChars

\* /^[\d\s\-\(\)\+\.]{7,20}$/.test(s)
PhoneRegexTest(s) ==
  /\ Len(s) >= PhoneMinLength
  /\ Len(s) <= PhoneMaxLength
  /\ \A i \in 1..Len(s) : s[i] \in PhoneChars

Result(v, m) == [valid |-> v, message |-> m]

\* validateName that refuses a name of exactly the greatest length.
validateNameBelowMax(value) ==
  LET trimmed == Trim(OrEmpty(value))
  IN  IF trimmed = <<>> THEN Result(FALSE, "Name is required.")
      ELSE IF Len(trimmed) >= NameMaxLength
        THEN Result(FALSE, "Name must be 100 characters or less.")
        ELSE Result(TRUE, "")

validateName(value) ==
  LET trimmed == Trim(OrEmpty(value))
  IN  IF trimmed = <<>> THEN Result(FALSE, "Name is required.")
      ELSE IF Len(trimmed) > NameMaxLength
        THEN Result(FALSE, "Name must be 100 characters or less.")
        ELSE Result(TRUE, "")

validatePhone(value) ==
  LET trimmed == Trim(OrEmpty(value))
  IN  IF trimmed = <<>> THEN Result(FALSE, "Phone number is required.")
      ELSE IF ~PhoneRegexTest(trimmed)
        THEN Result(FALSE, "Enter a valid phone number (7-20 digits/symbols).")
        ELSE Result(TRUE, "")

validateSource(value) ==
  IF Falsy(value) \/ Trim(value) = <<>>
    THEN Result(FALSE, "Please select a source.")
    ELSE Result(TRUE, "")

validateStatus(value) ==
  IF Falsy(value) \/ Trim(value) = <<>>
    THEN Result(FALSE, "Please select a status.")
    ELSE Result(TRUE, "")

\* ------------------------------------------------------------------- store

\* JavaScript values a caller of getLeads can receive.
JsArray(items) == [t |-> "array", items |-> items]

JsOther(t) == [t |-> t, items |-> <<>>]

\* Contents of the storage slot.
SlotAbsent == [kind |-> "absent", val |-> JsOther("none")]

SlotEmptyText == [kind |-> "empty", val |-> JsOther("none")]

SlotNotJson == [kind |-> "notjson", val |-> JsOther("none")]

SlotJson(v) == [kind |-> "json", val |-> v]

\* JSON.stringify of an array of leads: the text that denotes that array.
JsonStringify(leads) == SlotJson(JsArray(leads))

\* getLeads: a missing or empty text gives [], a text JSON.parse rejects
\* gives [] through the catch, any other text gives what JSON.parse returns.
getLeads(s) ==
  IF s.kind \in {"absent", "empty"} THEN JsArray(<<>>)
  ELSE IF s.kind = "notjson" THEN JsArray(<<>>)
  ELSE s.val

\* saveLeads that removes the item when the write fails.
saveLeadsClears(s, leads, writeOk) ==
  IF writeOk THEN JsonStringify(leads) ELSE SlotAbsent

\* saveLeads: setItem either stores the text or throws (swallowed).
saveLeads(s, leads, writeOk) == IF writeOk THEN JsonStringify(leads) ELSE s

\* generateId: 'lead_' + Date.now() + '_' + the random part.
generateId(now, rnd) ==
  <<"l", "e", "a", "d", "_">> \o DecimalText(now) \o <<"_">> \o rnd

\* What generateId can read: a value of Date.now() (wall-clock time, which may
\* repeat) with a value of Math.random().toString(36).slice(2, 9).
IdSeeds == {[now |-> 0, rnd |-> <<"a">>], [now |-> 1, rnd |-> <<"b">>]}

\* --------------------------------------------------------------- JSON text

\* The text of the slot, character by character, for the round trip through
\* JSON.stringify and JSON.parse. The handlers above use the value the text
\* denotes; C14 checks that the two agree.

Chars(str) ==
  CASE str = "id" -> <<"i", "d">>
    [] str = "name" -> <<"n", "a", "m", "e">>
    [] str = "phone" -> <<"p", "h", "o", "n", "e">>
    [] str = "source" -> <<"s", "o", "u", "r", "c", "e">>
    [] str = "status" -> <<"s", "t", "a", "t", "u", "s">>

LeadKeys == <<"id", "name", "phone", "source", "status">>

\* A string with its escapes left out.
RECURSIVE JsonEscapeNone(_)
JsonEscapeNone(str) ==
  IF str = <<>> THEN <<>> ELSE <<Head(str)>> \o JsonEscapeNone(Tail(str))

\* The escapes JSON.stringify writes inside a string.
RECURSIVE JsonEscape(_)
JsonEscape(str) ==
  IF str = <<>> THEN <<>>
  ELSE (CASE Head(str) = "\"" -> <<"\\", "\"">>
          [] Head(str) = "\\" -> <<"\\", "\\">>
          [] Head(str) = "\t" -> <<"\\", "t">>
          [] OTHER -> <<Head(str)>>) \o JsonEscape(Tail(str))

JsonQuote(str) == <<"\"">> \o JsonEscape(str) \o <<"\"">>

RECURSIVE JsonMembers(_, _)
JsonMembers(lead, k) ==
  JsonQuote(Chars(LeadKeys[k])) \o <<":">> \o JsonQuote(lead[LeadKeys[k]])
    \o (IF k = Len(LeadKeys) THEN <<>> ELSE <<",">> \o JsonMembers(lead, k + 1))

RECURSIVE JsonElements(_)
JsonElements(leads) ==
  IF leads = <<>> THEN <<>>
  ELSE <<"{">> \o JsonMembers(Head(leads), 1) \o <<"}">>
         \o (IF Len(leads) = 1 THEN <<>> ELSE <<",">> \o JsonElements(Tail(leads)))

\* JSON.stringify(leads), as text. (The keys are written in one order; the
\* value JSON.parse returns does not depend on it.)
JsonText(leads) == <<"[">> \o JsonElements(leads) \o <<"]">>

Parsed(ok, val, next) == [ok |-> ok, val |-> val, next |-> next]

ParseFail == Parsed(FALSE, <<>>, 0)

At(text, i) == IF i >= 1 /\ i <= Len(text) THEN text[i] ELSE "EOF"

\* The characters of a string literal from position i, up to its closing quote.
RECURSIVE ParseChars(_, _, _)
ParseChars(text, i, acc) ==
  LET c == At(text, i)
      e == At(text, i + 1)
  IN  IF c = "EOF" \/ c = "\t" THEN ParseFail
      ELSE IF c = "\"" THEN Parsed(TRUE, acc, i + 1)
      ELSE IF c = "\\"
        THEN IF e = "\"" \/ e = "\\" THEN ParseChars(text, i + 2, Append(acc, e))
             ELSE IF e = "t" THEN ParseChars(text, i + 2, Append(acc, "\t"))
             ELSE ParseFail
      ELSE ParseChars(text, i + 1, Append(acc, c))

ParseString(text, i) ==
  IF At(text, i) = "\"" THEN ParseChars(text, i + 1, <<>>) ELSE ParseFail

KeyNamed(chars) ==
  IF \E k \in 1..Len(LeadKeys) : Chars(LeadKeys[k]) = chars
    THEN LeadKeys[CHOOSE k \in 1..Len(LeadKeys) : Chars(LeadKeys[k]) = chars]
    ELSE "other"

\* "key":"value" pairs from position i up to the closing brace; a key that
\* comes twice keeps its last value.
RECURSIVE ParseMembers(_, _, _)
ParseMembers(text, i, acc) ==
  LET key == ParseString(text, i)
      value == ParseString(text, key.next + 1)
      object == [k \in DOMAIN acc \cup {KeyNamed(key.val)} |->
                   IF k = KeyNamed(key.val) THEN value.val ELSE acc[k]]
  IN  IF ~key.ok \/ At(text, key.next) # ":" THEN ParseFail
      ELSE IF ~value.ok THEN ParseFail
      ELSE IF At(text, value.next) = "," THEN ParseMembers(text, value.next + 1, object)
      ELSE IF At(text, value.next) = "}" THEN Parsed(TRUE, object, value.next + 1)
      ELSE ParseFail

ParseObject(text, i) ==
  IF At(text, i) # "{" THEN ParseFail
  ELSE IF At(text, i + 1) = "}" THEN Parsed(TRUE, <<>>, i + 2)
  ELSE ParseMembers(text, i + 1, <<>>)

RECURSIVE ParseElements(_, _, _)
ParseElements(text, i, acc) ==
  LET object == ParseObject(text, i)
  IN  IF ~object.ok THEN ParseFail
      ELSE IF At(text, object.next) = ","
        THEN ParseElements(text, object.next + 1, Append(acc, object.val))
      ELSE IF At(text, object.next) = "]"
        THEN Parsed(TRUE, Append(acc, object.val), object.next + 1)
      ELSE ParseFail

ParseArray(text, i) ==
  IF At(text, i) # "[" THEN ParseFail
  ELSE IF At(text, i + 1) = "]" THEN Parsed(TRUE, <<>>, i + 2)
  ELSE ParseElements(text, i + 1, <<>>)

\* JSON.parse(text) for the texts of this model: an array of objects with
\* string members, an object, null, or a text that is no JSON at all. All of
\* the text has to be used up.
JsonParse(text) ==
  LET array == ParseArray(text, 1)
      object == ParseObject(text, 1)
  IN  IF array.ok /\ array.next = Len(text) + 1 THEN Parsed(TRUE, JsArray(array.val), 0)
      ELSE IF object.ok /\ object.next = Len(text) + 1
        THEN Parsed(TRUE, JsOther("object"), 0)
      ELSE IF text = <<"n", "u", "l", "l">> THEN Parsed(TRUE, JsOther("null"), 0)
      ELSE ParseFail

\* The content of the slot once setItem has stored the text.
SlotOfText(text) ==
  IF text = <<>> THEN SlotEmptyText
  ELSE IF JsonParse(text).ok THEN SlotJson(JsonParse(text).val)
  ELSE SlotNotJson

\* saveLeads with the text of JSON.stringify spelled out.
saveLeadsText(s, leads, writeOk) ==
  IF writeOk THEN SlotOfText(JsonText(leads)) ELSE s

\* ------------------------------------------------------------ query engine

\* getFilters, from the values of the search box and the status filter.
getFilters(search, status) ==
  [search |-> IF search # <<>> THEN ToLowerCase(Trim(search)) ELSE <<>>,
   status |-> IF status # <<>> THEN Trim(status) ELSE <<>>]

\* A search that looks at the name only.
matchesSearchNameOnly(lead, filters) ==
  \/ Falsy(filters.search)
  \/ (~Falsy(lead.name) /\ Includes(ToLowerCase(lead.name), filters.search))

matchesSearch(lead, filters) ==
  \/ Falsy(filters.search)
  \/ (~Falsy(lead.name) /\ Includes(ToLowerCase(lead.name), filters.search))
  \/ (~Falsy(lead.phone) /\ Includes(ToLowerCase(lead.phone), filters.search))

matchesStatus(lead, filters) ==
  Falsy(filters.status) \/ lead.status = filters.status

\* A filter that also drops the first record it would keep.
filterLeadsDropsFirst(leads, filters) ==
  LET keep(lead) == matchesSearch(lead, filters) /\ matchesStatus(lead, filters)
      kept == SelectSeq(leads, keep)
  IN  IF kept = <<>> THEN kept ELSE Tail(kept)

filterLeads(leads, filters) ==
  LET keep(lead) == matchesSearch(lead, filters) /\ matchesStatus(lead, filters)
  IN  SelectSeq(leads, keep)

\* ------------------------------------------------------------------- state

Tabs == {"A", "B"}

VARIABLES
  slot,            \* localStorage[STORAGE_KEY], shared by the tabs
  form,            \* per tab: lead-id, lead-name, lead-phone, lead-source, lead-status
  errors,          \* per tab: textContent of the four error elements
  invalid,         \* per tab: which fields carry the class 'invalid'
  formTitle,       \* per tab: 'Add New Lead' / 'Edit Lead' (submitBtn, cancelBtn follow it)
  deleteTargetId,  \* per tab
  modalVisible,    \* per tab: modalOverlay has the class 'visible'
  searchInput,     \* per tab
  statusFilter,    \* per tab
  tbody,           \* per tab: the leads whose rows (and buttons) leadsTbody holds
  tableVisible,    \* per tab: leadsTableWrap shown, leadsEmpty hidden
  last,            \* the last submit or confirmed delete: its tab and how it ended
  call             \* the last direct call of a function: its name, arguments, result

vars ==
  <<slot, form, errors, invalid, formTitle, deleteTargetId, modalVisible,
    searchInput, statusFilter, tbody, tableVisible, last, call>>

Fields == {"name", "phone", "source", "status"}

EmptyForm ==
  [id |-> <<>>, name |-> <<>>, phone |-> <<>>, source |-> <<>>, status |-> <<>>]

NoErrors == [f \in Fields |-> ""]

NoInvalid == [f \in Fields |-> FALSE]

Outcome(t, outcome, saved) == [tab |-> t, outcome |-> outcome, saved |-> saved]

Called(fn, args, result) == [fn |-> fn, args |-> args, result |-> result]

Init ==
  /\ slot = SlotAbsent
  /\ form = [t \in Tabs |-> EmptyForm]
  /\ errors = [t \in Tabs |-> NoErrors]
  /\ invalid = [t \in Tabs |-> NoInvalid]
  /\ formTitle = [t \in Tabs |-> "Add New Lead"]
  /\ deleteTargetId = [t \in Tabs |-> null]
  /\ modalVisible = [t \in Tabs |-> FALSE]
  /\ searchInput = [t \in Tabs |-> <<>>]
  /\ statusFilter = [t \in Tabs |-> <<>>]
  /\ tbody = [t \in Tabs |-> <<>>]
  /\ tableVisible = [t \in Tabs |-> FALSE]
  /\ last = Outcome("A", "none", "none")
  /\ call = Called("none", <<>>, <<>>)

\* ------------------------------------------------------- handler fragments

\* validateForm that stops at the first failing field.
validateFormShortCircuit(f) ==
  LET nameResult == validateName(f.name)
      phoneResult == validatePhone(f.phone)
      sourceResult == validateSource(f.source)
      statusResult == validateStatus(f.status)
      nameOk == nameResult.valid
      phoneOk == nameOk /\ phoneResult.valid
      sourceOk == phoneOk /\ sourceResult.valid
  IN  [errors |-> [name |-> nameResult.message,
                   phone |-> IF nameOk THEN phoneResult.message ELSE "",
                   source |-> IF phoneOk THEN sourceResult.message ELSE "",
                   status |-> IF sourceOk THEN statusResult.message ELSE ""],
       invalid |-> [name |-> ~nameResult.valid,
                    phone |-> nameOk /\ ~phoneResult.valid,
                    source |-> phoneOk /\ ~sourceResult.valid,
                    status |-> sourceOk /\ ~statusResult.valid],
       valid |-> nameResult.valid /\ phoneResult.valid
                   /\ sourceResult.valid /\ statusResult.valid]

\* validateForm: the four results, the messages and classes it sets, its value.
validateForm(f) ==
  LET nameResult == validateName(f.name)
      phoneResult == validatePhone(f.phone)
      sourceResult == validateSource(f.source)
      statusResult == validateStatus(f.status)
  IN  [errors |-> [name |-> nameResult.message, phone |-> phoneResult.message,
                   source |-> sourceResult.message, status |-> statusResult.message],
       invalid |-> [name |-> ~nameResult.valid, phone |-> ~phoneResult.valid,
                    source |-> ~sourceResult.valid, status |-> ~statusResult.valid],
       valid |-> nameResult.valid /\ phoneResult.valid
                   /\ sourceResult.valid /\ statusResult.valid]

\* resetForm, with the clearValidation it ends with.
resetForm(t) ==
  /\ form' = [form EXCEPT ![t] = EmptyForm]
  /\ formTitle' = [formTitle EXCEPT ![t] = "Add New Lead"]
  /\ errors' = [errors EXCEPT ![t] = NoErrors]
  /\ invalid' = [invalid EXCEPT ![t] = NoInvalid]

\* renderLeads on a slot that holds an array (or nothing readable): an empty
\* result shows the empty state and returns before the rows are rewritten.
renderLeads(t, s) ==
  LET filtered == filterLeads(getLeads(s).items,
                              getFilters(searchInput'[t], statusFilter'[t]))
  IN  IF Len(filtered) = 0
        THEN /\ tableVisible' = [tableVisible EXCEPT ![t] = FALSE]
             /\ tbody' = tbody
        ELSE /\ tableVisible' = [tableVisible EXCEPT ![t] = TRUE]
             /\ tbody' = [tbody EXCEPT ![t] = filtered]

\* leads.findIndex(l => l.id === id), 0 when there is none (1-based otherwise).
findIndex(leads, id) ==
  IF \E i \in 1..Len(leads) : leads[i].id = id
    THEN CHOOSE i \in 1..Len(leads) :
           /\ leads[i].id = id
           /\ \A j \in 1..(i - 1) : leads[j].id # id
    ELSE 0

\* The record built from the form's values as typed.
leadOfUntrimmed(id, f) ==
  [id |-> id, name |-> f.name, phone |-> f.phone, source |-> f.source,
   status |-> f.status]

\* The record handleFormSubmit builds for the form's trimmed values.
leadOf(id, f) ==
  [id |-> id, name |-> Trim(f.name), phone |-> Trim(f.phone),
   source |-> Trim(f.source), status |-> Trim(f.status)]

\* An update that appends the record and leaves the old one.
replaceAtAppends(leads, index, lead) == Append(leads, lead)

\* leads[index] = {...}
replaceAt(leads, index, lead) == [leads EXCEPT ![index] = lead]

\* leads.unshift(payload)
pushFront(leads, lead) == <<lead>> \o leads

\* leads.push(payload)
push(leads, lead) == Append(leads, lead)

\* getLeads().filter(l => l.id !== deleteTargetId)
removeId(leads, id) ==
  LET keep(l) == l.id # id
  IN  SelectSeq(leads, keep)

\* The data-id values of the buttons the user can click: those of the rows of
\* leadsTbody, while leadsTableWrap is displayed.
ButtonIds(t) ==
  IF tableVisible[t] THEN {tbody[t][i].id : i \in 1..Len(tbody[t])} ELSE {}

\* ------------------------------------------------------------------ inputs

Jo == <<"J", "o">>

Al == <<"A", "l">>

Phone1 == <<"5", "5", "5", "-", "1", "2", "3", "4">>

Phone2 == <<"+", "5", "5", "5", "0", "0", "0", "0">>

Web == <<"w", "e", "b">>

New == <<"n", "e", "w">>

Lost == <<"l", "o", "s", "t">>

Pad(s) == <<" ">> \o s \o <<" ">>

LongName == [i \in 1..(NameMaxLength + 1) |-> "x"]

FormValues(n, p, so, st) == [name |-> n, phone |-> p, source |-> so, status |-> st]

\* What the user can have typed and selected when an event arrives (the two
\* selects hold one of their option values, the text inputs anything).
ValidInputs ==
  {FormValues(Pad(Jo), Phone1, Web, New),
   FormValues(Al, Pad(Phone2), Web, Lost)}

InvalidInputs ==
  {FormValues(<<" ", " ">>, <<"5", "5", "5", "-", "1", "2", "x", "4">>, Web, New)}

FormInputs == ValidInputs \cup InvalidInputs

SearchInputs == {<<>>, <<" ", "J", "O">>}

StatusFilterInputs == {<<>>, Lost}

\* ----------------------------------------------------------------- actions

\* The user edits the four visible fields; the hidden lead-id keeps its value.
FillForm(t, in) ==
  /\ form' = [form EXCEPT ![t] = [id |-> form[t].id, name |-> in.name,
                                  phone |-> in.phone, source |-> in.source,
                                  status |-> in.status]]
  /\ UNCHANGED <<call, last, slot, errors, invalid, formTitle, deleteTargetId,
                 modalVisible, searchInput, statusFilter, tbody, tableVisible>>

\* A validation failure that also resets the form.
SubmitInvalidResets(t) ==
  LET v == validateForm(form[t])
  IN  /\ ~v.valid
      /\ form' = [form EXCEPT ![t] = EmptyForm]
      /\ errors' = [errors EXCEPT ![t] = v.errors]
      /\ invalid' = [invalid EXCEPT ![t] = v.invalid]
      /\ last' = Outcome(t, "invalid", "none")
      /\ UNCHANGED <<call, slot, formTitle, deleteTargetId, modalVisible,
                     searchInput, statusFilter, tbody, tableVisible>>

\* handleFormSubmit: validation failure returns after the messages are set.
SubmitInvalid(t) ==
  LET v == validateForm(form[t])
  IN  /\ ~v.valid
      /\ errors' = [errors EXCEPT ![t] = v.errors]
      /\ invalid' = [invalid EXCEPT ![t] = v.invalid]
      /\ last' = Outcome(t, "invalid", "none")
      /\ UNCHANGED <<call, slot, form, formTitle, deleteTargetId, modalVisible,
                     searchInput, statusFilter, tbody, tableVisible>>

\* handleFormSubmit: getLeads gave no array, so findIndex / push throws.
SubmitThrows(t) ==
  LET v == validateForm(form[t])
  IN  /\ v.valid
      /\ getLeads(slot).t # "array"
      /\ errors' = [errors EXCEPT ![t] = v.errors]
      /\ invalid' = [invalid EXCEPT ![t] = v.invalid]
      /\ last' = Outcome(t, "threw", "none")
      /\ UNCHANGED <<call, slot, form, formTitle, deleteTargetId, modalVisible,
                     searchInput, statusFilter, tbody, tableVisible>>

\* An update that adds the record when its id is not found.
SubmitUpdateUpserts(t, writeOk) ==
  LET v == validateForm(form[t])
      id == Trim(form[t].id)
      leads == getLeads(slot).items
      index == findIndex(leads, id)
  IN  /\ v.valid
      /\ getLeads(slot).t = "array"
      /\ id # <<>>
      /\ IF index # 0
           THEN /\ slot' = saveLeads(slot, replaceAt(leads, index, leadOf(id, form[t])),
                                     writeOk)
                /\ last' = Outcome(t, "updated",
                               IF writeOk THEN "ok" ELSE "failed")
           ELSE /\ slot' = saveLeads(slot, push(leads, leadOf(id, form[t])), writeOk)
                /\ last' = Outcome(t, "stale", "none")
      /\ resetForm(t)
      /\ UNCHANGED <<call, searchInput, statusFilter>>
      /\ renderLeads(t, slot')
      /\ UNCHANGED <<deleteTargetId, modalVisible>>

\* An update that is dropped when the stored record is no longer the one
\* this tab's table shows.
SubmitUpdateFirstWins(t, writeOk) ==
  LET v == validateForm(form[t])
      id == Trim(form[t].id)
      leads == getLeads(slot).items
      index == findIndex(leads, id)
      shown == \E i \in 1..Len(tbody[t]) : tbody[t][i] = leads[index]
  IN  /\ v.valid
      /\ getLeads(slot).t = "array"
      /\ id # <<>>
      /\ IF index # 0 /\ shown
           THEN /\ slot' = saveLeads(slot, replaceAt(leads, index, leadOf(id, form[t])),
                                     writeOk)
                /\ last' = Outcome(t, "updated",
                               IF writeOk THEN "ok" ELSE "failed")
           ELSE /\ slot' = slot
                /\ last' = Outcome(t, "stale", "none")
      /\ resetForm(t)
      /\ UNCHANGED <<call, searchInput, statusFilter>>
      /\ renderLeads(t, slot')
      /\ UNCHANGED <<deleteTargetId, modalVisible>>

\* handleFormSubmit with a lead-id: replace the record found, or save nothing.
SubmitUpdate(t, writeOk) ==
  LET v == validateForm(form[t])
      id == Trim(form[t].id)
      leads == getLeads(slot).items
      index == findIndex(leads, id)
  IN  /\ v.valid
      /\ getLeads(slot).t = "array"
      /\ id # <<>>
      /\ IF index # 0
           THEN /\ slot' = saveLeads(slot, replaceAt(leads, index, leadOf(id, form[t])),
                                     writeOk)
                /\ last' = Outcome(t, "updated",
                               IF writeOk THEN "ok" ELSE "failed")
           ELSE /\ slot' = slot
                /\ last' = Outcome(t, "stale", "none")
      /\ resetForm(t)
      /\ UNCHANGED <<call, searchInput, statusFilter>>
      /\ renderLeads(t, slot')
      /\ UNCHANGED <<deleteTargetId, modalVisible>>

\* handleFormSubmit without a lead-id: append a record with a generated id.
SubmitAdd(t, now, rnd, writeOk) ==
  LET v == validateForm(form[t])
      id == Trim(form[t].id)
      leads == getLeads(slot).items
  IN  /\ v.valid
      /\ getLeads(slot).t = "array"
      /\ id = <<>>
      /\ Len(leads) < MaxLeads
      /\ slot' = saveLeads(slot, push(leads, leadOf(generateId(now, rnd), form[t])),
                           writeOk)
      /\ last' = Outcome(t, "added", IF writeOk THEN "ok" ELSE "failed")
      /\ resetForm(t)
      /\ UNCHANGED <<call, searchInput, statusFilter>>
      /\ renderLeads(t, slot')
      /\ UNCHANGED <<deleteTargetId, modalVisible>>

\* handleEditClick on a button of the table: load the record into the form.
HandleEditClick(t, id) ==
  LET leads == getLeads(slot).items
      index == findIndex(leads, id)
      lead == leads[index]
  IN  /\ id \in ButtonIds(t)
      /\ getLeads(slot).t = "array"
      /\ IF index = 0
           THEN UNCHANGED <<form, formTitle, errors, invalid>>
           ELSE /\ form' = [form EXCEPT ![t] =
                              [id |-> lead.id, name |-> lead.name, phone |-> lead.phone,
                               source |-> lead.source, status |-> lead.status]]
                /\ formTitle' = [formTitle EXCEPT ![t] = "Edit Lead"]
                /\ errors' = [errors EXCEPT ![t] = NoErrors]
                /\ invalid' = [invalid EXCEPT ![t] = NoInvalid]
      /\ UNCHANGED <<call, last, slot, deleteTargetId, modalVisible, searchInput,
                     statusFilter, tbody, tableVisible>>

\* handleEditClick when getLeads gave no array: leads.find throws.
EditThrows(t, id) ==
  /\ id \in ButtonIds(t)
  /\ getLeads(slot).t # "array"
  /\ UNCHANGED <<call, last, slot, form, errors, invalid, formTitle, deleteTargetId,
                 modalVisible, searchInput, statusFilter, tbody, tableVisible>>

\* A delete click that removes the record at once.
HandleDeleteClickEager(t, id) ==
  /\ id \in ButtonIds(t)
  /\ slot' = JsonStringify(removeId(getLeads(slot).items, id))
  /\ deleteTargetId' = [deleteTargetId EXCEPT ![t] = id]
  /\ modalVisible' = [modalVisible EXCEPT ![t] = TRUE]
  /\ UNCHANGED <<call, last, form, errors, invalid, formTitle, searchInput,
                 statusFilter, tbody, tableVisible>>

\* handleDeleteClick on a button of the table: remember the id, show the modal.
HandleDeleteClick(t, id) ==
  /\ id \in ButtonIds(t)
  /\ deleteTargetId' = [deleteTargetId EXCEPT ![t] = id]
  /\ modalVisible' = [modalVisible EXCEPT ![t] = TRUE]
  /\ UNCHANGED <<call, last, slot, form, errors, invalid, formTitle, searchInput,
                 statusFilter, tbody, tableVisible>>

\* confirmDelete with no pending target: hide the modal and return.
ConfirmNoTarget(t) ==
  /\ deleteTargetId[t] = null
  /\ modalVisible' = [modalVisible EXCEPT ![t] = FALSE]
  /\ UNCHANGED <<call, last, slot, form, errors, invalid, formTitle, deleteTargetId,
                 searchInput, statusFilter, tbody, tableVisible>>

\* confirmDelete when getLeads gave no array: .filter throws before anything is set.
ConfirmThrows(t) ==
  /\ deleteTargetId[t] # null
  /\ getLeads(slot).t # "array"
  /\ last' = Outcome(t, "threw", "none")
  /\ UNCHANGED <<call, slot, form, errors, invalid, formTitle, deleteTargetId,
                 modalVisible, searchInput, statusFilter, tbody, tableVisible>>

\* A confirmed delete that leaves the form alone.
ConfirmTargetKeepsForm(t, writeOk) ==
  /\ deleteTargetId[t] # null
  /\ getLeads(slot).t = "array"
  /\ slot' = saveLeads(slot, removeId(getLeads(slot).items, deleteTargetId[t]), writeOk)
  /\ deleteTargetId' = [deleteTargetId EXCEPT ![t] = null]
  /\ modalVisible' = [modalVisible EXCEPT ![t] = FALSE]
  /\ UNCHANGED <<call, form, formTitle, errors, invalid, searchInput, statusFilter>>
  /\ renderLeads(t, slot')
  /\ last' = Outcome(t, "deleted", IF writeOk THEN "ok" ELSE "failed")

\* cancelModal that hides the dialog and keeps the target.
CancelModalKeepsTarget(t) ==
  /\ modalVisible' = [modalVisible EXCEPT ![t] = FALSE]
  /\ UNCHANGED <<call, last, slot, form, errors, invalid, formTitle, searchInput,
                 statusFilter, tbody, tableVisible, deleteTargetId>>

\* confirmDelete with a pending target: filter it out, save, reset, render.
ConfirmTarget(t, writeOk) ==
  /\ deleteTargetId[t] # null
  /\ getLeads(slot).t = "array"
  /\ slot' = saveLeads(slot, removeId(getLeads(slot).items, deleteTargetId[t]), writeOk)
  /\ deleteTargetId' = [deleteTargetId EXCEPT ![t] = null]
  /\ modalVisible' = [modalVisible EXCEPT ![t] = FALSE]
  /\ resetForm(t)
  /\ UNCHANGED <<call, searchInput, statusFilter>>
  /\ renderLeads(t, slot')
  /\ last' = Outcome(t, "deleted", IF writeOk THEN "ok" ELSE "failed")

\* cancelModal: the Cancel button, or a click on the overlay.
CancelModal(t) ==
  /\ deleteTargetId' = [deleteTargetId EXCEPT ![t] = null]
  /\ modalVisible' = [modalVisible EXCEPT ![t] = FALSE]
  /\ UNCHANGED <<call, last, slot, form, errors, invalid, formTitle, searchInput,
                 statusFilter, tbody, tableVisible>>

\* handleCancelEdit
HandleCancelEdit(t) ==
  /\ resetForm(t)
  /\ UNCHANGED <<call, last, slot, deleteTargetId, modalVisible, searchInput,
                 statusFilter, tbody, tableVisible>>

\* handleSearchOrFilter: the search box or the status filter changed, render.
HandleSearchOrFilter(t, search, status) ==
  /\ search = searchInput[t] \/ status = statusFilter[t]
  /\ getLeads(slot).t = "array"
  /\ searchInput' = [searchInput EXCEPT ![t] = search]
  /\ statusFilter' = [statusFilter EXCEPT ![t] = status]
  /\ renderLeads(t, slot)
  /\ UNCHANGED <<call, last, slot, form, errors, invalid, formTitle, deleteTargetId,
                 modalVisible>>

\* handleSearchOrFilter when getLeads gave no array: leads.filter throws.
FilterThrows(t, search, status) ==
  /\ search = searchInput[t] \/ status = statusFilter[t]
  /\ getLeads(slot).t # "array"
  /\ searchInput' = [searchInput EXCEPT ![t] = search]
  /\ statusFilter' = [statusFilter EXCEPT ![t] = status]
  /\ UNCHANGED <<call, last, slot, form, errors, invalid, formTitle, deleteTargetId,
                 modalVisible, tbody, tableVisible>>

\* handleFormSubmit, whichever way it ends.
HandleFormSubmitStep(t) ==
  \/ SubmitInvalid(t)
  \/ SubmitThrows(t)
  \/ \E writeOk \in BOOLEAN : SubmitUpdate(t, writeOk)
  \/ \E seed \in IdSeeds, writeOk \in BOOLEAN :
       SubmitAdd(t, seed.now, seed.rnd, writeOk)

\* confirmDelete, whichever way it ends.
ConfirmDeleteStep(t) ==
  \/ ConfirmNoTarget(t)
  \/ ConfirmThrows(t)
  \/ \E writeOk \in BOOLEAN : ConfirmTarget(t, writeOk)

\* validateForm run on its own: its messages and classes, and its value.
RunValidateForm(t) ==
  LET v == validateForm(form[t])
  IN  /\ errors' = [errors EXCEPT ![t] = v.errors]
      /\ invalid' = [invalid EXCEPT ![t] = v.invalid]
      /\ last' = Outcome(t, IF v.valid THEN "valid" ELSE "invalid", "none")
      /\ UNCHANGED <<call, slot, form, formTitle, deleteTargetId, modalVisible,
                     searchInput, statusFilter, tbody, tableVisible>>

\* Something outside the page (another program of the origin, the user's
\* developer tools) replaces the text of the slot.
ExternalWrite(s) ==
  /\ slot' = s
  /\ UNCHANGED <<call, last, form, errors, invalid, formTitle, deleteTargetId,
                 modalVisible, searchInput, statusFilter, tbody, tableVisible>>

\* Texts that are JSON but denote no array.
JsonNonArrays == {JsOther("null"), JsOther("number"), JsOther("object")}

\* Slot contents that are not the text of an array.
FaultySlots ==
  {SlotEmptyText, SlotNotJson} \cup {SlotJson(v) : v \in JsonNonArrays}

\* Field values for the validators on their own.
NameInputs == {<<>>, <<" ", " ">>, Pad(Jo), LongName}

PhoneInputs ==
  {<<>>, <<"\t">>, Pad(Phone1), <<"1", "2", "3">>,
   <<"5", "5", "5", "-", "1", "2", "x", "4">>}

SourceInputs == {<<>>, <<" ">>, Web}

StatusInputs == {<<>>, <<" ">>, Pad(New)}

ValidatorInputs ==
  {FormValues(n, p, so, st) :
     n \in NameInputs, p \in PhoneInputs, so \in SourceInputs, st \in StatusInputs}

\* ------------------------------------------------------------ direct calls

Lead(id, n, p, so, st) ==
  [id |-> id, name |-> n, phone |-> p, source |-> so, status |-> st]

\* A string of n characters c.
Repeat(c, n) == [i \in 1..n |-> c]

\* Arguments for validateName: nothing, blanks, short names, and names of
\* NameMaxLength - 1, NameMaxLength and NameMaxLength + 1 characters, bare
\* and padded.
NameArguments ==
  {null, undefined, <<>>, <<" ">>, <<"\t", " ">>, Jo, Pad(Jo), <<"J", " ", "o">>,
   Repeat("x", NameMaxLength - 1), Repeat("x", NameMaxLength),
   Pad(Repeat("x", NameMaxLength)), LongName, Pad(LongName)}

\* Arguments for validatePhone: nothing, blanks, texts of PhoneMinLength - 1,
\* PhoneMinLength, PhoneMaxLength and PhoneMaxLength + 1 characters, every
\* character of the class, and characters outside it.
PhoneArguments ==
  {null, undefined, <<>>, <<" ", "\t">>, Phone1, Pad(Phone2),
   Repeat("7", PhoneMinLength - 1), Repeat("7", PhoneMinLength),
   Pad(Repeat("7", PhoneMinLength - 1)), Pad(Repeat("7", PhoneMinLength)),
   Repeat("-", PhoneMinLength),
   Repeat("7", PhoneMaxLength), Pad(Repeat("7", PhoneMaxLength)),
   Repeat("7", PhoneMaxLength + 1),
   <<"(", "5", "5", "5", ")", " ", "1", "2", ".", "3", "4", "\t", "+", "-">>,
   <<"5", "5", "5", "-", "1", "2", "x", "4">>,
   <<"5", "5", "5", "1", "2", "3", "4", "#">>,
   <<"5", "5", "5", "_", "1", "2", "3", "4">>}

\* Stored records: plain ones, and names with the characters JSON escapes.
WellFormedLeads ==
  {Lead(generateId(0, <<"a">>), Jo, Phone1, Web, New),
   Lead(generateId(1, <<"b">>), <<"A", "\"", "l">>, Phone2, Web, Lost),
   Lead(generateId(1, <<"c">>), <<"J", "\\", "\t", "o">>, Phone1, Web, Lost)}

\* Records for filterLeads: the stored ones, and one without a name.
FilterLeads ==
  WellFormedLeads \cup {Lead(generateId(0, <<"d">>), <<>>, Phone2, Web, New)}

\* The sequences of at most MaxLeads records of a set.
Collections(leads) == UNION {[1..n -> leads] : n \in 0..MaxLeads}

\* The collections saveLeads is called with: no record twice.
StoredCollections ==
  {leads \in Collections(WellFormedLeads) :
     \A i, j \in 1..Len(leads) : leads[i] = leads[j] => i = j}

FilterArguments ==
  {[search |-> se, status |-> st] :
     se \in {<<>>, <<"j", "o">>, <<"J", "O">>, <<"5", "5", "5", "-">>, <<"z">>},
     st \in {<<>>, Lost, <<"l", "o", "s">>}}

CallValidateName(value) ==
  /\ call' = Called("validateName", <<value>>, validateName(value))
  /\ UNCHANGED <<slot, form, errors, invalid, formTitle, deleteTargetId,
                 modalVisible, searchInput, statusFilter, tbody, tableVisible, last>>

CallValidatePhone(value) ==
  /\ call' = Called("validatePhone", <<value>>, validatePhone(value))
  /\ UNCHANGED <<slot, form, errors, invalid, formTitle, deleteTargetId,
                 modalVisible, searchInput, statusFilter, tbody, tableVisible, last>>

CallFilterLeads(leads, filters) ==
  /\ call' = Called("filterLeads", <<leads, filters>>, filterLeads(leads, filters))
  /\ UNCHANGED <<slot, form, errors, invalid, formTitle, deleteTargetId,
                 modalVisible, searchInput, statusFilter, tbody, tableVisible, last>>

\* filterLeads on the result of the last call, with the same filters.
CallFilterLeadsAgain ==
  /\ call.fn = "filterLeads"
  /\ call' = Called("filterLeads", <<call.result, call.args[2]>>,
                    filterLeads(call.result, call.args[2]))
  /\ UNCHANGED <<slot, form, errors, invalid, formTitle, deleteTargetId,
                 modalVisible, searchInput, statusFilter, tbody, tableVisible, last>>

\* saveLeads(leads); what it returns is nothing, what is noted is whether
\* setItem stored the text.
CallSaveLeads(leads, writeOk) ==
  /\ slot' = saveLeadsText(slot, leads, writeOk)
  /\ call' = Called("saveLeads", <<leads>>, IF writeOk THEN "stored" ELSE "dropped")
  /\ UNCHANGED <<form, errors, invalid, formTitle, deleteTargetId,
                 modalVisible, searchInput, statusFilter, tbody, tableVisible, last>>

CallGetLeads ==
  /\ call' = Called("getLeads", <<>>, getLeads(slot))
  /\ UNCHANGED <<slot, form, errors, invalid, formTitle, deleteTargetId,
                 modalVisible, searchInput, statusFilter, tbody, tableVisible, last>>

\* ---------------------------------------------------------- specifications

\* One tab, storage that always reads and writes.
Next ==
  \/ \E in \in FormInputs : FillForm("A", in)
  \/ SubmitInvalid("A")
  \/ SubmitUpdate("A", TRUE)
  \/ \E seed \in IdSeeds : SubmitAdd("A", seed.now, seed.rnd, TRUE)
  \/ \E id \in ButtonIds("A") : HandleEditClick("A", id)
  \/ \E id \in ButtonIds("A") : HandleDeleteClick("A", id)
  \/ ConfirmNoTarget("A")
  \/ ConfirmTarget("A", TRUE)
  \/ CancelModal("A")
  \/ HandleCancelEdit("A")
  \/ \E se \in SearchInputs, st \in StatusFilterInputs : HandleSearchOrFilter("A", se, st)

Spec == Init /\ [][Next]_vars

\* The validators on every combination of field values.
NextValidate ==
  \/ \E in \in ValidatorInputs : FillForm("A", in)
  \/ RunValidateForm("A")

SpecValidate == Init /\ [][NextValidate]_vars

\* One tab, storage that can hold anything and can refuse a write. Here the
\* user types valid values only (the empty form is the invalid one), and the
\* search box takes only its 'search' event, which renders again with the
\* filters as they are.
NextFault ==
  \/ \E in \in ValidInputs : FillForm("A", in)
  \/ SubmitInvalid("A")
  \/ SubmitThrows("A")
  \/ \E writeOk \in BOOLEAN : SubmitUpdate("A", writeOk)
  \/ \E seed \in IdSeeds, writeOk \in BOOLEAN :
       SubmitAdd("A", seed.now, seed.rnd, writeOk)
  \/ \E id \in ButtonIds("A") : HandleEditClick("A", id)
  \/ \E id \in ButtonIds("A") : EditThrows("A", id)
  \/ \E id \in ButtonIds("A") : HandleDeleteClick("A", id)
  \/ ConfirmNoTarget("A")
  \/ ConfirmThrows("A")
  \/ \E writeOk \in BOOLEAN : ConfirmTarget("A", writeOk)
  \/ CancelModal("A")
  \/ HandleCancelEdit("A")
  \/ HandleSearchOrFilter("A", searchInput["A"], statusFilter["A"])
  \/ FilterThrows("A", searchInput["A"], statusFilter["A"])
  \/ \E s \in FaultySlots : ExternalWrite(s)

SpecFault == Init /\ [][NextFault]_vars

\* Two tabs of the same origin on one slot, each handler running to its end
\* before the next one starts; storage that always reads and writes. Tab A
\* adds, loads and updates records, and submits the empty form; tab B, which
\* sees what A stored when it renders again, loads, updates and deletes
\* them. Each tab types its own values.
NextTabs ==
  \/ FillForm("A", FormValues(Pad(Jo), Phone1, Web, New))
  \/ \E seed \in IdSeeds : SubmitAdd("A", seed.now, seed.rnd, TRUE)
  \/ SubmitInvalid("A")
  \/ FillForm("B", FormValues(Al, Pad(Phone2), Web, Lost))
  \/ \E id \in ButtonIds("B") : HandleDeleteClick("B", id)
  \/ ConfirmTarget("B", TRUE)
  \/ \E t \in Tabs :
       \/ SubmitUpdate(t, TRUE)
       \/ \E id \in ButtonIds(t) : HandleEditClick(t, id)
       \/ HandleSearchOrFilter(t, searchInput[t], statusFilter[t])

SpecTabs == Init /\ [][NextTabs]_vars

\* The validators and filterLeads called on their own.
NextCalls ==
  \/ \E value \in NameArguments : CallValidateName(value)
  \/ \E value \in PhoneArguments : CallValidatePhone(value)
  \/ \E leads \in Collections(FilterLeads), filters \in FilterArguments :
       CallFilterLeads(leads, filters)
  \/ CallFilterLeadsAgain

SpecCalls == Init /\ [][NextCalls]_vars

\* saveLeads and getLeads called on their own, on a storage that can refuse
\* a write.
NextStore ==
  \/ \E leads \in StoredCollections, writeOk \in BOOLEAN :
       CallSaveLeads(leads, writeOk)
  \/ CallGetLeads

SpecStore == Init /\ [][NextStore]_vars

\* ------------------------------------------------------------------ claims

\* The collection the slot holds: the array its text denotes, if it denotes one.
Persisted(s) == IF s.kind = "json" /\ s.val.t = "array" THEN s.val.items ELSE <<>>

IdsOf(leads) == {leads[i].id : i \in 1..Len(leads)}

CountId(leads, id) == Cardinality({i \in 1..Len(leads) : leads[i].id = id})

\* The four validators pass on the form's values.
AllValid(f) ==
  /\ validateName(f.name).valid
  /\ validatePhone(f.phone).valid
  /\ validateSource(f.source).valid
  /\ validateStatus(f.status).valid

\* The record a submit of form f under id is to store.
Trimmed(id, f) ==
  [id |-> id, name |-> Trim(f.name), phone |-> Trim(f.phone),
   source |-> Trim(f.source), status |-> Trim(f.status)]

\* C1: a record leaves the persisted collection only in a step of confirmDelete
\* whose pending deleteTargetId is that record's id; deleteTargetId takes a
\* new id only in handleDeleteClick for that id, and cancelModal and
\* confirmDelete clear it; handleDeleteClick, cancelModal and confirmDelete
\* without a pending target leave the persisted collection as it is.
C1_DeleteOnlyOnConfirm ==
  [][LET P == Persisted(slot)
         Q == Persisted(slot')
         target == deleteTargetId["A"]
         after == deleteTargetId'["A"]
     IN  /\ (IdsOf(P) \ IdsOf(Q) # {} \/ Len(Q) < Len(P)) =>
              /\ \E writeOk \in BOOLEAN : ConfirmTarget("A", writeOk)
              /\ target # null
              /\ IdsOf(P) \ IdsOf(Q) = {target}
         /\ (after # target /\ after # null) => HandleDeleteClick("A", after)
         /\ (CancelModal("A") \/ ConfirmNoTarget("A")
               \/ \E writeOk \in BOOLEAN : ConfirmTarget("A", writeOk)) => after = null
         /\ ((\E id \in IdsOf(tbody["A"]) : HandleDeleteClick("A", id))
               \/ CancelModal("A") \/ ConfirmNoTarget("A")) => slot' = slot
    ]_vars

\* A confirmed delete took a record out of a collection of two.
C1_Witness ==
  /\ last.outcome = "deleted"
  /\ Len(Persisted(slot)) = 1
  /\ deleteTargetId["A"] = null

\* C2: a submit with four valid fields and an empty lead-id, whose save
\* succeeds, leaves the previous collection with one record appended at the
\* end: the id generateId returned for this call and the trimmed form values;
\* the records stored before keep their values and positions.
C2_AddAppendsOne ==
  [][(/\ form["A"].id = <<>>
      /\ AllValid(form["A"])
      /\ last'.saved # "failed"
      /\ HandleFormSubmitStep("A")) =>
       LET P == Persisted(slot)
           Q == Persisted(slot')
       IN  /\ Len(Q) = Len(P) + 1
           /\ \A i \in 1..Len(P) : Q[i] = P[i]
           /\ \E seed \in IdSeeds :
                Q[Len(Q)] = Trimmed(generateId(seed.now, seed.rnd), form["A"])
           /\ Q[Len(Q)].id # <<>>
    ]_vars

\* An add put a second record behind the first.
C2_Witness ==
  /\ last.outcome = "added"
  /\ last.saved = "ok"
  /\ Len(Persisted(slot)) = 2

\* C3: a submit with four valid fields and a lead-id that matches a stored
\* record replaces the first record of that id, at its position, by the
\* record of the same id and the trimmed form values; the length, the order
\* and every other record stay, so the number of records of that id stays
\* (one stays one).
C3_UpdateInPlace ==
  [][(/\ form["A"].id \in IdsOf(Persisted(slot))
      /\ AllValid(form["A"])
      /\ HandleFormSubmitStep("A")) =>
       LET P == Persisted(slot)
           Q == Persisted(slot')
           id == form["A"].id
           at == CHOOSE i \in 1..Len(P) :
                   P[i].id = id /\ \A j \in 1..(i - 1) : P[j].id # id
       IN  /\ Len(Q) = Len(P)
           /\ Q[at] = Trimmed(id, form["A"])
           /\ \A j \in 1..Len(P) : j # at => Q[j] = P[j]
           /\ CountId(Q, id) = CountId(P, id)
           /\ CountId(P, id) = 1 => CountId(Q, id) = 1
    ]_vars

\* An update happened in a collection of two records of different ids.
C3_Witness ==
  /\ last.outcome = "updated"
  /\ Len(Persisted(slot)) = 2
  /\ Persisted(slot)[1].id # Persisted(slot)[2].id

\* C4: confirmDelete with a pending target keeps every record of another id,
\* unchanged and in order, and shrinks the collection by exactly one when the
\* target is present.
C4_DeleteRemovesOne ==
  [][ConfirmTarget("A", TRUE) =>
       LET P == Persisted(slot)
           Q == Persisted(slot')
           target == deleteTargetId["A"]
           other(l) == l.id # target
       IN  /\ SelectSeq(Q, other) = SelectSeq(P, other)
           /\ target \notin IdsOf(Q)
           /\ target \in IdsOf(P) => Len(Q) = Len(P) - 1
    ]_vars

\* C5: no two records of the persisted collection have the same id.
C5_UniqueIds ==
  \A i, j \in 1..Len(Persisted(slot)) :
    Persisted(slot)[i].id = Persisted(slot)[j].id => i = j

\* C6: every stored record's name, phone, source and status is non-empty and
\* neither starts nor ends with whitespace.
C6_StoredFieldsTrimmed ==
  \A i \in 1..Len(Persisted(slot)) :
    \A v \in {Persisted(slot)[i].name, Persisted(slot)[i].phone,
              Persisted(slot)[i].source, Persisted(slot)[i].status} :
      /\ v # <<>>
      /\ v[1] \notin Whitespace
      /\ v[Len(v)] \notin Whitespace

\* A record typed with padding is stored, and an invalid submit came after it.
C6_Witness ==
  /\ last.outcome = "invalid"
  /\ Len(Persisted(slot)) >= 1
  /\ \E i \in 1..Len(Persisted(slot)) : Persisted(slot)[i].phone = Phone2

\* C7: when a validator fails on the form's values, handleFormSubmit leaves the
\* persisted collection, the form's four fields and its lead-id as they are.
C7_InvalidBlocksSubmit ==
  [][(~AllValid(form["A"]) /\ HandleFormSubmitStep("A")) =>
       (slot' = slot /\ form' = form)
    ]_vars

\* An invalid submit in edit mode: the record and the form are still there.
C7_Witness ==
  /\ last.outcome = "invalid"
  /\ form["A"].id \in IdsOf(Persisted(slot))
  /\ ~AllValid(form["A"])
  /\ errors["A"].name = "Name is required."
  /\ errors["A"].source = ""

\* C8: after validateForm each field's displayed error is the message of that
\* field's own validator, non-empty exactly for the failing fields, and
\* validateForm returns true exactly when the four validators pass.
C8_ValidateAllReportAll ==
  [][RunValidateForm("A") =>
       LET f == form["A"]
           own == [name |-> validateName(f.name), phone |-> validatePhone(f.phone),
                   source |-> validateSource(f.source),
                   status |-> validateStatus(f.status)]
       IN  /\ \A k \in Fields :
                /\ errors'["A"][k] = own[k].message
                /\ (errors'["A"][k] = "") <=> own[k].valid
           /\ (last'.outcome = "valid") <=> (\A k \in Fields : own[k].valid)
    ]_vars

\* Three fields fail at once and show their messages, the fourth passes.
C8_Witness ==
  /\ last.outcome = "invalid"
  /\ errors["A"].name = "Name must be 100 characters or less."
  /\ errors["A"].phone # ""
  /\ errors["A"].status # ""
  /\ errors["A"].source = ""
  /\ form["A"].source = Web

\* C9: getLeads returns a sequence for every content of the slot, and the
\* empty sequence unless the content is the text of an array.
C9_GetLeadsReturnsSequence ==
  /\ getLeads(slot).t = "array"
  /\ ~(slot.kind = "json" /\ slot.val.t = "array") => getLeads(slot).items = <<>>

\* The text of the slot is not JSON, or denotes no array. (An empty text is
\* read like a missing one, without any exception.)
ReadFault(s) ==
  \/ s.kind = "notjson"
  \/ s.kind = "json" /\ s.val.t # "array"

\* A step of handleFormSubmit or confirmDelete that meets a fault: the slot
\* is unreadable, the write fails, validation fails, or the update id is not
\* among the records read.
FaultStep ==
  \/ /\ \/ ReadFault(slot)
        \/ last'.saved = "failed"
        \/ ~AllValid(form["A"])
        \/ /\ Trim(form["A"].id) # <<>>
           /\ Trim(form["A"].id) \notin IdsOf(Persisted(slot))
     /\ HandleFormSubmitStep("A")
  \/ /\ ReadFault(slot) \/ last'.saved = "failed"
     /\ ConfirmDeleteStep("A")

\* C10, as stated: on every fault path the slot holds afterwards what it held
\* before.
C10_FaultLeavesSlot == [][FaultStep => slot' = slot]_vars

\* C10, amended: on a fault path the slot holds afterwards what it held before,
\* except when its text was not JSON and the handler reached a save that
\* succeeded: then it holds the collection computed from the empty list (the
\* new record alone after an add, the empty array after a delete).
C10_FaultLeavesSlotUnlessOverwritten ==
  [][FaultStep =>
       IF slot.kind = "notjson" /\ last'.saved = "ok"
         THEN \/ /\ last'.outcome = "deleted"
                 /\ slot' = JsonStringify(<<>>)
              \/ /\ last'.outcome = "added"
                 /\ \E seed \in IdSeeds :
                      slot' = JsonStringify(
                                <<Trimmed(generateId(seed.now, seed.rnd), form["A"])>>)
         ELSE slot' = slot
    ]_vars

\* A failed write during an add left the stored record alone.
C10_Witness ==
  /\ last.outcome = "added"
  /\ last.saved = "failed"
  /\ Len(Persisted(slot)) = 1

\* The records of leads that the predicate of C13 keeps, in their order.
RECURSIVE KeptBy(_, _)
KeptBy(leads, f) ==
  LET lead == Head(leads)
      keeps ==
        /\ \/ f.search = <<>>
           \/ Includes(ToLowerCase(lead.name), f.search)
           \/ Includes(ToLowerCase(lead.phone), f.search)
        /\ \/ f.status = <<>>
           \/ lead.status = f.status
  IN  IF leads = <<>> THEN <<>>
      ELSE (IF keeps THEN <<lead>> ELSE <<>>) \o KeptBy(Tail(leads), f)

\* C13: filterLeads(leads, {search, status}) is the sequence of the records
\* of leads, in their order, for which search is empty or the lower-cased
\* name or phone contains it, and status is empty or equal to the record's.
C13_FilterExact ==
  call.fn = "filterLeads" => call.result = KeptBy(call.args[1], call.args[2])

\* A search that only a phone matches, with a status, kept the second of
\* two records.
C13_Witness ==
  /\ call.fn = "filterLeads"
  /\ call.args[2] = [search |-> <<"5", "5", "5", "-">>, status |-> Lost]
  /\ Len(call.args[1]) = 2
  /\ call.result = <<call.args[1][2]>>
  /\ call.args[1][1].status = New

\* C14, as stated: getLeads right after saveLeads(L) returns L.
C14_RoundTrip ==
  [][(call.fn = "saveLeads" /\ CallGetLeads) =>
       call'.result = JsArray(call.args[1])
    ]_vars

\* C14, amended: getLeads right after a saveLeads(L) whose write was stored
\* returns L, the same records in the same order with the same field values
\* (the text written denotes exactly the array the handlers take it for);
\* after a saveLeads(L) whose write was refused it returns what it returned
\* before.
C14_RoundTripWhenStored ==
  [][/\ (call'.fn = "saveLeads" /\ call'.result = "stored"
           /\ CallSaveLeads(call'.args[1], TRUE)) =>
          /\ slot' = JsonStringify(call'.args[1])
          /\ getLeads(slot') = JsArray(call'.args[1])
     /\ (call'.fn = "saveLeads" /\ call'.result = "dropped"
           /\ CallSaveLeads(call'.args[1], FALSE)) =>
          getLeads(slot') = getLeads(slot)
     /\ (call.fn = "saveLeads" /\ call.result = "stored" /\ CallGetLeads) =>
          call'.result = JsArray(call.args[1])
    ]_vars

\* Two records whose names hold a quote, a backslash and a tab came back.
C14_Witness ==
  /\ call.fn = "getLeads"
  /\ call.result.t = "array"
  /\ Len(call.result.items) = 2
  /\ call.result.items[1].name = <<"A", "\"", "l">>
  /\ call.result.items[2].name = <<"J", "\\", "\t", "o">>

\* C15: validateName(s).valid is true exactly when the trimmed length of s
\* (null and undefined counting as the empty string) is from 1 to 100; at 0
\* the message is the 'required' one, above 100 the 'too long' one.
C15_ValidateNameRange ==
  call.fn = "validateName" =>
    LET s == call.args[1]
        n == IF s \in {null, undefined} THEN 0 ELSE Len(Trim(s))
    IN  /\ call.result.valid <=> (n >= 1 /\ n <= 100)
        /\ n = 0 => call.result.message = "Name is required."
        /\ n > 100 => call.result.message = "Name must be 100 characters or less."
        /\ call.result.valid => call.result.message = ""

\* A padded name of exactly 100 characters passed.
C15_Witness ==
  /\ call.fn = "validateName"
  /\ Len(call.args[1]) = 102
  /\ Len(Trim(call.args[1])) = 100
  /\ call.result.valid

\* C16: validatePhone(s).valid is true exactly when s trimmed has from 7 to 20
\* characters, each a digit, whitespace, '-', '(', ')', '+' or '.'.
C16_ValidatePhoneRegex ==
  call.fn = "validatePhone" =>
    LET s == call.args[1]
        t == IF s \in {null, undefined} THEN <<>> ELSE Trim(s)
        allowed == {"0", "1", "2", "3", "4", "5", "6", "7", "8", "9",
                    " ", "\t", "-", "(", ")", "+", "."}
    IN  call.result.valid <=>
          /\ Len(t) >= 7
          /\ Len(t) <= 20
          /\ \A i \in 1..Len(t) : t[i] \in allowed

\* A padded phone number of exactly 7 characters passed.
C16_Witness ==
  /\ call.fn = "validatePhone"
  /\ Len(call.args[1]) = 9
  /\ Len(Trim(call.args[1])) = 7
  /\ call.result.valid

\* C17: filterLeads applied to its own result with the same filters returns
\* that result.
C17_FilterIdempotent ==
  [][CallFilterLeadsAgain =>
       /\ call'.args = <<call.result, call.args[2]>>
       /\ call'.result = call.result
    ]_vars

\* The second pass over a result that had lost a record kept all of it.
C17_Witness ==
  /\ call.fn = "filterLeads"
  /\ call.args[1] = call.result
  /\ call.result # <<>>
  /\ call.args[2].search # <<>>
  /\ \E lead \in FilterLeads :
       filterLeads(<<lead>>, call.args[2]) = <<>>

\* C11: a submit with four valid fields and a lead-id that matches no stored
\* record performs no save: the slot, and so the persisted collection, is as
\* before (no record with the form's values is added), and the tab shows no
\* error.
C11_StaleUpdateNoOp ==
  [][\A t \in Tabs :
       (/\ Trim(form[t].id) # <<>>
        /\ Trim(form[t].id) \notin IdsOf(Persisted(slot))
        /\ AllValid(form[t])
        /\ HandleFormSubmitStep(t)) =>
         /\ slot' = slot
         /\ Persisted(slot') = Persisted(slot)
         /\ last' = Outcome(t, "stale", "none")
         /\ errors'[t] = NoErrors
         /\ invalid'[t] = NoInvalid
    ]_vars

\* Tab A submitted an update of a record tab B had deleted; another record
\* is still stored.
C11_Witness ==
  /\ last = Outcome("A", "stale", "none")
  /\ Len(Persisted(slot)) = 1
  /\ errors["A"] = NoErrors
  /\ form["A"] = EmptyForm

\* C12: after confirmDelete with a pending target the lead-id and the four
\* fields of the form are empty, whatever the form held.
C12_ConfirmResetsForm ==
  [][(deleteTargetId["A"] # null /\ ConfirmDeleteStep("A")) =>
       form'["A"] = EmptyForm
    ]_vars

\* C18: with two tabs on one store, a tab's update takes away nothing from
\* the other tab's form and shows it nothing; the submit of tab A with the
\* id of a stored record x then stores A's form values as x, whatever the
\* other tab stored there in between, at the same position and with every
\* other record as it was, and neither tab shows an error for it.
C18_LastWriteWins ==
  [][/\ (/\ form["A"].id # <<>>
         /\ Trim(form["B"].id) = form["A"].id
         /\ SubmitUpdate("B", TRUE)) =>
          /\ form'["A"] = form["A"]
          /\ errors'["A"] = errors["A"]
          /\ tbody'["A"] = tbody["A"]
     /\ (/\ form["A"].id \in IdsOf(Persisted(slot))
         /\ AllValid(form["A"])
         /\ HandleFormSubmitStep("A")) =>
          LET P == Persisted(slot)
              Q == Persisted(slot')
              id == form["A"].id
              at == CHOOSE i \in 1..Len(P) :
                      P[i].id = id /\ \A j \in 1..(i - 1) : P[j].id # id
          IN  /\ Len(Q) = Len(P)
              /\ Q[at] = Trimmed(id, form["A"])
              /\ \A j \in 1..Len(P) : j # at => Q[j] = P[j]
              /\ last' = Outcome("A", "updated", "ok")
              /\ errors'["A"] = NoErrors
              /\ errors'["B"] = errors["B"]
              /\ form'["B"] = form["B"]
    ]_vars

\* Tab A's update is what the store holds for the only record, while tab B
\* still shows that record with the values B had stored for it; no error is
\* shown in either tab.
C18_Witness ==
  /\ last = Outcome("A", "updated", "ok")
  /\ Len(Persisted(slot)) = 1
  /\ Persisted(slot)[1].name = Jo
  /\ tableVisible["B"]
  /\ Len(tbody["B"]) = 1
  /\ tbody["B"][1].id = Persisted(slot)[1].id
  /\ tbody["B"][1].name = Al
  /\ errors["A"] = NoErrors
  /\ errors["B"] = NoErrors

\* C19: the modal is visible exactly when deleteTargetId is not null;
\* handleDeleteClick sets both, cancelModal and a confirmDelete that returns
\* clear both (one that throws leaves both as they are).
C19_ModalIffTarget ==
  /\ [](\A t \in Tabs : modalVisible[t] <=> deleteTargetId[t] # null)
  /\ [][/\ (\E id \in ButtonIds("A") : HandleDeleteClick("A", id)) =>
             (modalVisible'["A"] /\ deleteTargetId'["A"] \in ButtonIds("A"))
        /\ (CancelModal("A") \/ ConfirmNoTarget("A")
              \/ \E writeOk \in BOOLEAN : ConfirmTarget("A", writeOk)) =>
             (~modalVisible'["A"] /\ deleteTargetId'["A"] = null)
        /\ ConfirmThrows("A") =>
             (modalVisible'["A"] /\ deleteTargetId'["A"] = deleteTargetId["A"])
       ]_vars

\* The dialog is open on a pending target while the slot holds no array.
C19_Witness ==
  /\ modalVisible["A"]
  /\ deleteTargetId["A"] # null
  /\ getLeads(slot).t # "array"
  /\ last.outcome = "threw"

\* C20: with one tab and a storage that reads and writes, a non-empty lead-id
\* of the form is the id of a stored record, and no submit has taken the
\* not-found branch of update (which is what sets the outcome 'stale').
C20_EditIdStored ==
  /\ form["A"].id # <<>> => form["A"].id \in IdsOf(Persisted(slot))
  /\ last.outcome # "stale"

\* The form is in edit mode after a confirmed delete left one record.
C20_Witness ==
  /\ form["A"].id # <<>>
  /\ last.outcome = "deleted"
  /\ Len(Persisted(slot)) = 1

====
